---- MODULE Spec2Model ----
(***************************************************************************)
(* Model of the FDTD experiment builder, src/examples/fdtd/experiment.py:  *)
(* the classes Source, Material and Experiment, the rasterization methods  *)
(* draw_circle and draw_rectangle, and export.                             *)
(*                                                                         *)
(* Numbers.  The arguments of the calls are small integers.  A Python      *)
(* float is kept as a decimal m * 10^e in normal form (m not divisible by  *)
(* 10, zero is m = 0, e = 0), or as the infinity.  Python lists are        *)
(* sequences; the cell field[c][r] of the source (0-based) is              *)
(* field[c + 1][r + 1] here.  A Python object is the record of its         *)
(* attributes and of its class, cls.  Record constructors list their       *)
(* fields in the order TLC keeps them in.                                  *)
(***************************************************************************)
EXTENDS Integers, Sequences, FiniteSets, TLC

VARIABLES
    width,        \* argument width of Experiment.__init__ (not stored by the code)
    height,       \* argument height of Experiment.__init__ (not stored by the code)
    constructed,  \* TRUE iff Experiment.__init__ returned an object
    dx,           \* self.dx
    tau,          \* self.tau
    t_detect,     \* self.t_detect
    t_max,        \* self.t_max
    sources,      \* self.sources
    materials,    \* self.materials
    field,        \* self.field
    file,         \* what the last call wrote: <<>>, or <<document>> after a json.dump
    last,         \* the last call: its name, its material index, what it raised
    pre,          \* sources, materials and field as they were when the last call began
    history       \* the draw calls that returned normally, oldest first

vars == <<width, height, constructed, dx, tau, t_detect, t_max, sources,
          materials, field, file, last, pre, history>>

(***************************************************************************)
(* Bounds of the model.                                                    *)
(***************************************************************************)
MaxDim == 3
MaxDraws == 2
MaxMaterials == 2
MaxSources == 2

Dims == 0..MaxDim
DxValues == {-1, 0, 1, 2}
Indices == -1..MaxMaterials
TableIndices == 0..(MaxMaterials - 1)
CoverRadius == 2 * MaxDim + 2
CircleCalls == {<<1, 1, 1>>, <<0, 0, CoverRadius>>}
SourcePoints == {<<1, 0>>}

(***************************************************************************)
(* Floats.                                                                 *)
(***************************************************************************)
RECURSIVE Norm(_, _)
Norm(m, e) ==
    IF m = 0 THEN [m |-> 0, e |-> 0, inf |-> FALSE]
    ELSE IF m % 10 = 0 THEN Norm(m \div 10, e + 1)
    ELSE [m |-> m, e |-> e, inf |-> FALSE]

Float(m, e) == Norm(m, e)

Infinity == [m |-> 0, e |-> 0, inf |-> TRUE]

\* w / 2 for an integer w >= 0: Python's true division.
Half(w) == Norm(5 * w, -1)

Abs(a) == IF a < 0 THEN -a ELSE a

\* int(a / b) for integers a and b # 0: the quotient truncated towards zero.
IntDiv(a, b) ==
    IF (a >= 0) = (b > 0) THEN Abs(a) \div Abs(b) ELSE -(Abs(a) \div Abs(b))

(***************************************************************************)
(* class Source, class Material                                            *)
(***************************************************************************)
Source(x, y) ==
    [x |-> x, y |-> y, cls |-> "Source", t_start |-> Float(0, 0),
     t_cutoff |-> Float(7, 0), frequency |-> Float(12, 13), phase |-> Float(3, 0)]

Material(relative_permeability, relative_permittivity) ==
    [cls |-> "Material", relative_permeability |-> relative_permeability,
     relative_permittivity |-> relative_permittivity]

vacuum == Material(Float(1, 0), Float(1, 0))

perfect_metal == Material(Infinity, Infinity)

MaterialValues == {vacuum, perfect_metal}

\* obj.__dict__: the attributes of an object as a dict.  A dict has none.
HasDict(obj) == obj.cls # "dict"

DictOf(obj) == [obj EXCEPT !.cls = "dict"]

(***************************************************************************)
(* class Experiment                                                        *)
(***************************************************************************)
\* range(n) is empty for n <= 0.
RangeLen(n) == IF n > 0 THEN n ELSE 0

\* [[0 for _ in range(int(width / dx))] for _ in range(int(height / dx))]
NewField(w, h, d) ==
    [c \in 1..RangeLen(IntDiv(h, d)) |-> [r \in 1..RangeLen(IntDiv(w, d)) |-> 0]]

n_columns == Len(field)

n_rows == IF Len(field) = 0 THEN 0 ELSE Len(field[1])

Snapshot == [sources |-> sources, materials |-> materials, field |-> field]

NoCall == [sources |-> <<>>, materials |-> <<>>, field |-> <<>>]

Call(op, i_material, raised) ==
    [op |-> op, i_material |-> i_material, raised |-> raised]

\* Experiment(width, height, dx, base_material)
Construct(w, h, d, base_material) ==
    /\ width = w
    /\ height = h
    /\ pre = NoCall
    /\ history = <<>>
    /\ file = <<>>
    /\ IF d = 0
       THEN \* width / self.dx raises; no object is returned
            /\ constructed = FALSE
            /\ last = Call("__init__", 0, "ZeroDivisionError")
            /\ dx = 0
            /\ tau = Float(0, 0)
            /\ t_detect = Float(0, 0)
            /\ t_max = Float(0, 0)
            /\ sources = <<>>
            /\ materials = <<>>
            /\ field = <<>>
       ELSE /\ constructed = TRUE
            /\ last = Call("__init__", 0, "none")
            /\ tau = Float(100, -15)
            /\ t_detect = Float(14, 0)
            /\ t_max = Float(15, 0)
            /\ dx = d
            /\ sources = <<Source(Half(w), Half(h))>>
            /\ materials = <<base_material>>
            /\ field = NewField(w, h, d)

Init == \E w \in Dims, h \in Dims, d \in DxValues : Construct(w, h, d, vacuum)

\* experiment.materials.append(material)
AppendMaterial(material) ==
    /\ constructed
    /\ Len(materials) < MaxMaterials
    /\ materials' = Append(materials, material)
    /\ pre' = Snapshot
    /\ last' = Call("append_material", 0, "none")
    /\ file' = <<>>
    /\ UNCHANGED <<width, height, constructed, dx, tau, t_detect, t_max,
                   sources, field, history>>

\* experiment.sources.append(Source(x, y))
AppendSource(x, y) ==
    /\ constructed
    /\ Len(sources) < MaxSources
    /\ sources' = Append(sources, Source(Float(x, 0), Float(y, 0)))
    /\ pre' = Snapshot
    /\ last' = Call("append_source", 0, "none")
    /\ file' = <<>>
    /\ UNCHANGED <<width, height, constructed, dx, tau, t_detect, t_max,
                   materials, field, history>>

\* sqrt(delta_x**2 + delta_y**2) <= radius, for the cell (c, r)
InCircle(c, r, x_center, y_center, radius) ==
    LET delta_x == c * dx - x_center
        delta_y == r * dx - y_center
    IN  /\ radius >= 0
        /\ delta_x * delta_x + delta_y * delta_y <= radius * radius

\* x <= c * dx <= x + width and y <= r * dx <= y + height
InRectangle(c, r, x, y, w, h) ==
    /\ x <= c * dx
    /\ c * dx <= x + w
    /\ y <= r * dx
    /\ r * dx <= y + h

Covered(call, c, r) ==
    IF call.op = "draw_circle"
    THEN InCircle(c, r, call.x, call.y, call.a)
    ELSE InRectangle(c, r, call.x, call.y, call.a, call.b)

\* Paint, writing only the cells that still hold the base material.
PaintUnpaintedOnly(f, call) ==
    [c \in 1..Len(f) |->
        [r \in 1..Len(f[c]) |->
            IF Covered(call, c - 1, r - 1) /\ f[c][r] = 0
            THEN call.i_material ELSE f[c][r]]]

\* The two loops over range(n_columns) and range(n_rows).
Paint(f, call) ==
    [c \in 1..Len(f) |->
        [r \in 1..Len(f[c]) |->
            IF Covered(call, c - 1, r - 1) THEN call.i_material ELSE f[c][r]]]

\* if i_material >= len(self.materials): raise
IndexRejected(i_material) == i_material >= Len(materials)

Draw(call) ==
    /\ constructed
    /\ Len(history) < MaxDraws
    /\ pre' = Snapshot
    /\ IF IndexRejected(call.i_material)
       THEN /\ last' = Call(call.op, call.i_material, "Exception")
            /\ UNCHANGED <<field, history>>
       ELSE /\ last' = Call(call.op, call.i_material, "none")
            /\ field' = Paint(field, call)
            /\ history' = Append(history, call)
    /\ file' = <<>>
    /\ UNCHANGED <<width, height, constructed, dx, tau, t_detect, t_max,
                   sources, materials>>

draw_circle(x_center, y_center, radius, i_material) ==
    Draw([a |-> radius, b |-> 0, x |-> x_center, y |-> y_center,
          op |-> "draw_circle", i_material |-> i_material])

draw_rectangle(x, y, w, h, i_material) ==
    Draw([a |-> w, b |-> h, x |-> x, y |-> y,
          op |-> "draw_rectangle", i_material |-> i_material])

RectangleCalls == {<<0, 0, width, height>>, <<1, 0, 1, 1>>}

(***************************************************************************)
(* export: json.dump of self.__dict__                                      *)
(***************************************************************************)
\* The JSON text of a float: json writes the infinity as the word Infinity.
JsonFloat(f) ==
    IF f.inf THEN [m |-> 0, e |-> 0, lit |-> "Infinity"]
    ELSE [m |-> f.m, e |-> f.e, lit |-> "number"]

\* JsonSource, without the last attribute of the Source.
JsonSourceWithoutPhase(s) ==
    [x |-> JsonFloat(s.x), y |-> JsonFloat(s.y), t_start |-> JsonFloat(s.t_start),
     t_cutoff |-> JsonFloat(s.t_cutoff), frequency |-> JsonFloat(s.frequency)]

JsonSource(s) ==
    [x |-> JsonFloat(s.x), y |-> JsonFloat(s.y), t_start |-> JsonFloat(s.t_start),
     t_cutoff |-> JsonFloat(s.t_cutoff), frequency |-> JsonFloat(s.frequency),
     phase |-> JsonFloat(s.phase)]

JsonMaterial(m) ==
    [relative_permeability |-> JsonFloat(m.relative_permeability),
     relative_permittivity |-> JsonFloat(m.relative_permittivity)]

\* json.dump(data, ...) with data the attribute dict of the Experiment
JsonDump(data) ==
    [dx |-> data.dx, tau |-> JsonFloat(data.tau),
     t_detect |-> JsonFloat(data.t_detect), t_max |-> JsonFloat(data.t_max),
     sources |-> [k \in 1..Len(data.sources) |-> JsonSource(data.sources[k])],
     materials |-> [k \in 1..Len(data.materials) |-> JsonMaterial(data.materials[k])],
     field |-> data.field]

\* data["sources"] = [s.__dict__ for s in list(data["sources"])]
DictsOf(objects) == [k \in 1..Len(objects) |-> DictOf(objects[k])]

AllHaveDict(objects) == \A k \in 1..Len(objects) : HasDict(objects[k])

\* data = self.__dict__ is the Experiment's own attribute dict, not a copy:
\* the two assignments to data[...] assign self.sources and self.materials.
\* The file is opened and written without failure.
export ==
    /\ constructed
    /\ pre' = Snapshot
    /\ IF ~AllHaveDict(sources)
       THEN /\ last' = Call("export", 0, "AttributeError")
            /\ file' = <<>>
            /\ UNCHANGED <<sources, materials>>
       ELSE IF ~AllHaveDict(materials)
       THEN /\ last' = Call("export", 0, "AttributeError")
            /\ sources' = DictsOf(sources)
            /\ file' = <<>>
            /\ UNCHANGED materials
       ELSE /\ last' = Call("export", 0, "none")
            /\ sources' = DictsOf(sources)
            /\ materials' = DictsOf(materials)
            /\ file' = <<JsonDump([dx |-> dx, tau |-> tau, t_detect |-> t_detect,
                                   t_max |-> t_max, sources |-> DictsOf(sources),
                                   materials |-> DictsOf(materials), field |-> field])>>
    /\ UNCHANGED <<width, height, constructed, dx, tau, t_detect, t_max,
                   field, history>>

Next ==
    \/ \E material \in MaterialValues : AppendMaterial(material)
    \/ \E p \in SourcePoints : AppendSource(p[1], p[2])
    \/ \E s \in CircleCalls, i \in Indices : draw_circle(s[1], s[2], s[3], i)
    \/ \E s \in RectangleCalls, i \in Indices : draw_rectangle(s[1], s[2], s[3], s[4], i)
    \/ export

Spec == Init /\ [][Next]_vars

\* Construction, material appends and draw calls alone: the calls that
\* decide the grid.  Which material is appended does not matter to it.
NextRaster ==
    \/ AppendMaterial(perfect_metal)
    \/ \E s \in CircleCalls, i \in Indices : draw_circle(s[1], s[2], s[3], i)
    \/ \E s \in RectangleCalls, i \in Indices : draw_rectangle(s[1], s[2], s[3], s[4], i)

SpecRaster == Init /\ [][NextRaster]_vars

\* Construction, appends, export, and draw calls that succeed or fail on the
\* upper bound: one circle and the rectangle of the domain.
NextExport ==
    \/ AppendMaterial(perfect_metal)
    \/ \E p \in SourcePoints : AppendSource(p[1], p[2])
    \/ \E i \in TableIndices : draw_circle(1, 1, 1, i)
    \/ \E i \in TableIndices : draw_rectangle(0, 0, width, height, i)
    \/ export

SpecExport == Init /\ [][NextExport]_vars

(***************************************************************************)
(* Importer.  The repository holds no importer; this one follows the       *)
(* specification of the export document: it rejects a document that lacks  *)
(* a key or whose grid holds an index outside the materials array, and     *)
(* otherwise rebuilds the Experiment.                                      *)
(***************************************************************************)
DocumentKeys == {"tau", "t_detect", "t_max", "dx", "sources", "materials", "field"}

ParseFloat(token) ==
    IF token.lit = "Infinity" THEN Infinity ELSE Float(token.m, token.e)

ImportAccepts(doc) ==
    /\ DOMAIN doc = DocumentKeys
    /\ \A c \in 1..Len(doc.field) : \A r \in 1..Len(doc.field[c]) :
          /\ 0 <= doc.field[c][r]
          /\ doc.field[c][r] < Len(doc.materials)

Import(doc) ==
    [dx |-> doc.dx, tau |-> ParseFloat(doc.tau),
     t_detect |-> ParseFloat(doc.t_detect), t_max |-> ParseFloat(doc.t_max),
     sources |-> [k \in 1..Len(doc.sources) |->
         [x |-> ParseFloat(doc.sources[k].x), y |-> ParseFloat(doc.sources[k].y),
          cls |-> "Source",
          t_start |-> ParseFloat(doc.sources[k].t_start),
          t_cutoff |-> ParseFloat(doc.sources[k].t_cutoff),
          frequency |-> ParseFloat(doc.sources[k].frequency),
          phase |-> ParseFloat(doc.sources[k].phase)]],
     materials |-> [k \in 1..Len(doc.materials) |->
         Material(ParseFloat(doc.materials[k].relative_permeability),
                  ParseFloat(doc.materials[k].relative_permittivity))],
     field |-> doc.field]

(***************************************************************************)
(* Vocabulary of the properties.                                           *)
(***************************************************************************)
\* The cells of a grid, as the 0-based pairs (c, r) of the source.
CellsOf(f) == UNION {{<<c - 1, r - 1>> : r \in 1..Len(f[c])} : c \in 1..Len(f)}

CellAt(f, c, r) == f[c + 1][r + 1]

DrawOps == {"draw_circle", "draw_rectangle"}

ValidIndex(i) == 0 <= i /\ i < Len(materials)

ValidDomain == width > 0 /\ height > 0 /\ dx > 0 /\ dx <= width /\ dx <= height

Returned(op) == last.op = op /\ last.raised = "none"

DrawReturned == last.op \in DrawOps /\ last.raised = "none"

LastDraw == history[Len(history)]

AllCells(f, v) == \A cr \in CellsOf(f) : CellAt(f, cr[1], cr[2]) = v

\* A shape covers the physical position (c * dx, r * dx), as the
\* specification words it.
ShapeCovers(call, c, r) ==
    IF call.op = "draw_circle"
    THEN /\ call.a >= 0
         /\ (c * dx - call.x) * (c * dx - call.x)
              + (r * dx - call.y) * (r * dx - call.y) <= call.a * call.a
    ELSE /\ call.x <= c * dx /\ c * dx <= call.x + call.a
         /\ call.y <= r * dx /\ r * dx <= call.y + call.b

\* The material index of the most recent call of h that covers (c, r), else 0.
RECURSIVE LastWrite(_, _, _)
LastWrite(h, c, r) ==
    IF h = <<>> THEN 0
    ELSE IF ShapeCovers(h[Len(h)], c, r) THEN h[Len(h)].i_material
    ELSE LastWrite(SubSeq(h, 1, Len(h) - 1), c, r)

\* f < n for a finite float f = m * 10^e and an integer n.
RECURSIVE Pow10(_)
Pow10(k) == IF k <= 0 THEN 1 ELSE 10 * Pow10(k - 1)

FloatLess(f, n) == f.m * Pow10(f.e) < n * Pow10(-f.e)

FloatNonNegative(f) == f.m >= 0

(***************************************************************************)
(* C1: after any sequence of construction, appends and draw calls, every   *)
(* cell of the grid holds a value v with 0 <= v < len(materials).          *)
(***************************************************************************)
C1_CellsAreMaterialIndices ==
    constructed =>
        \A cr \in CellsOf(field) :
            /\ 0 <= CellAt(field, cr[1], cr[2])
            /\ CellAt(field, cr[1], cr[2]) < Len(materials)

(***************************************************************************)
(* C2: a draw call with an index in [0, len(materials)) succeeds; with any *)
(* other index it fails and leaves the grid as it was.                     *)
(***************************************************************************)
C2_IndexValidatedBeforeWrite ==
    last.op \in DrawOps =>
        IF ValidIndex(last.i_material)
        THEN last.raised = "none"
        ELSE last.raised # "none" /\ field = pre.field

(***************************************************************************)
(* C3: for width, height, dx > 0 with dx <= min(width, height) the         *)
(* Experiment is constructed with n_columns = floor(width / dx) and        *)
(* n_rows = floor(height / dx), and every cell of the new grid is 0.       *)
(***************************************************************************)
C3_GridDimensions ==
    ValidDomain =>
        /\ constructed
        /\ n_columns = width \div dx
        /\ n_rows = height \div dx
        /\ last.op = "__init__" => AllCells(field, 0)

(***************************************************************************)
(* C4: last write wins: after any sequence of successful draw calls on a   *)
(* fresh Experiment each cell (c, r) holds the material index of the most  *)
(* recent call whose shape covers (c * dx, r * dx), and 0 if none does.    *)
(***************************************************************************)
C4_LastWriteWins ==
    constructed =>
        \A cr \in CellsOf(field) :
            CellAt(field, cr[1], cr[2]) = LastWrite(history, cr[1], cr[2])

\* Two calls with different indices overlap in one cell; another cell is
\* covered by the first call alone, and a third by neither.
C4_Witness ==
    /\ constructed
    /\ Len(history) = 2
    /\ history[1].op # history[2].op
    /\ history[1].i_material # history[2].i_material
    /\ \E cr \in CellsOf(field) :
          ShapeCovers(history[1], cr[1], cr[2]) /\ ShapeCovers(history[2], cr[1], cr[2])
    /\ \E cr \in CellsOf(field) :
          ShapeCovers(history[1], cr[1], cr[2]) /\ ~ShapeCovers(history[2], cr[1], cr[2])
    /\ \E cr \in CellsOf(field) :
          ~ShapeCovers(history[1], cr[1], cr[2]) /\ ~ShapeCovers(history[2], cr[1], cr[2])

(***************************************************************************)
(* C5: export leaves every field of the Experiment unchanged, so a second  *)
(* export, too, succeeds.                                                  *)
(***************************************************************************)
C5_ExportIsPure ==
    last.op = "export" =>
        /\ last.raised = "none"
        /\ sources = pre.sources
        /\ materials = pre.materials
        /\ field = pre.field

(***************************************************************************)
(* C6: on a valid domain and with a valid index m, a circle whose radius   *)
(* reaches every corner of the domain sets every cell to m, and so does    *)
(* draw_rectangle(0, 0, width, height, m).                                 *)
(***************************************************************************)
CircleReaches(call, x, y) ==
    (x - call.x) * (x - call.x) + (y - call.y) * (y - call.y) <= call.a * call.a

CircleCoversDomain(call) ==
    /\ call.op = "draw_circle"
    /\ call.a >= 0
    /\ CircleReaches(call, 0, 0)
    /\ CircleReaches(call, width, 0)
    /\ CircleReaches(call, 0, height)
    /\ CircleReaches(call, width, height)

RectangleIsDomain(call) ==
    /\ call.op = "draw_rectangle"
    /\ call.x = 0 /\ call.y = 0 /\ call.a = width /\ call.b = height

C6_ShapeOverDomainPaintsAll ==
    (constructed /\ ValidDomain /\ DrawReturned /\ ValidIndex(last.i_material)) =>
        ((CircleCoversDomain(LastDraw) \/ RectangleIsDomain(LastDraw)) =>
            AllCells(field, last.i_material))

(***************************************************************************)
(* C7: construction fails whenever dx <= 0 or a computed grid dimension is *)
(* 0: no Experiment with a zero-extent grid is ever produced.              *)
(***************************************************************************)
C7_NoZeroExtentExperiment ==
    constructed =>
        /\ dx > 0
        /\ IntDiv(width, dx) # 0
        /\ IntDiv(height, dx) # 0
        /\ n_columns > 0
        /\ n_rows > 0

(***************************************************************************)
(* C8: the exported document has exactly the seven top-level keys; its     *)
(* sources and materials are those of the Experiment when export was       *)
(* called, in order and with all their fields; its field has the           *)
(* dimensions computed at construction, field[c][r] is the index of cell   *)
(* (c, r), and every integer in it is < len(materials).                    *)
(***************************************************************************)
SourceKeys == {"x", "y", "t_start", "t_cutoff", "frequency", "phase"}

MaterialKeys == {"relative_permeability", "relative_permittivity"}

C8_ExportCapturesState ==
    Returned("export") =>
        /\ Len(file) = 1
        /\ LET doc == file[1]
           IN  /\ DOMAIN doc = DocumentKeys
               /\ doc.tau = JsonFloat(tau)
               /\ doc.t_detect = JsonFloat(t_detect)
               /\ doc.t_max = JsonFloat(t_max)
               /\ doc.dx = dx
               /\ Len(doc.sources) = Len(pre.sources)
               /\ \A k \in 1..Len(pre.sources) :
                     /\ DOMAIN doc.sources[k] = SourceKeys
                     /\ \A key \in SourceKeys :
                           doc.sources[k][key] = JsonFloat(pre.sources[k][key])
               /\ Len(doc.materials) = Len(pre.materials)
               /\ \A k \in 1..Len(pre.materials) :
                     /\ DOMAIN doc.materials[k] = MaterialKeys
                     /\ \A key \in MaterialKeys :
                           doc.materials[k][key] = JsonFloat(pre.materials[k][key])
               /\ Len(doc.field) = Len(NewField(width, height, dx))
               /\ Len(doc.field) = Len(pre.field)
               /\ \A c \in 1..Len(doc.field) :
                     /\ Len(doc.field[c]) = Len(NewField(width, height, dx)[c])
                     /\ Len(doc.field[c]) = Len(pre.field[c])
                     /\ \A r \in 1..Len(doc.field[c]) :
                           /\ doc.field[c][r] = pre.field[c][r]
                           /\ doc.field[c][r] < Len(pre.materials)

\* An export of two sources, two different materials and a painted grid.
C8_Witness ==
    /\ Returned("export")
    /\ Len(pre.sources) = 2
    /\ Len(pre.materials) = 2
    /\ pre.materials[1] # pre.materials[2]
    /\ \E cr \in CellsOf(pre.field) : CellAt(pre.field, cr[1], cr[2]) = 1
    /\ \E cr \in CellsOf(pre.field) : CellAt(pre.field, cr[1], cr[2]) = 0
    /\ n_columns # n_rows

(***************************************************************************)
(* C9: importing the exported document yields the exported Experiment:     *)
(* the same scalars, sources, materials and grid.                          *)
(***************************************************************************)
C9_RoundTrip ==
    Returned("export") =>
        /\ ImportAccepts(file[1])
        /\ LET e == Import(file[1])
           IN  /\ e.tau = tau /\ e.t_detect = t_detect /\ e.t_max = t_max
               /\ e.dx = dx
               /\ e.sources = pre.sources
               /\ e.materials = pre.materials
               /\ e.field = pre.field

(***************************************************************************)
(* C10: the seeded source lies inside the grid: 0 <= x < n_columns and     *)
(* 0 <= y < n_rows.                                                        *)
(***************************************************************************)
C10_SeedSourceInsideGrid ==
    (constructed /\ ValidDomain) =>
        /\ FloatNonNegative(sources[1].x)
        /\ FloatLess(sources[1].x, n_columns)
        /\ FloatNonNegative(sources[1].y)
        /\ FloatLess(sources[1].y, n_rows)

====
